---- MODULE Spec2Model ----
(***************************************************************************)
(* Lead reconciliation of the Morris-Garages CRM: the Knowlarity call      *)
(* sync (knowlarity_sync.py) and the Meta lead sync (meta_sync.py), both   *)
(* writing the shared tables sources, leads_master, lead_sources_history.  *)
(*                                                                         *)
(* Every store call (.execute()) is one atomic step; the code between two  *)
(* store calls is local to a run and belongs to the step of the call that  *)
(* precedes it.  A store call either succeeds or reports an error (the     *)
(* `error` attribute the code tests).                                      *)
(***************************************************************************)
EXTENDS Integers, Sequences, FiniteSets, TLC

VARIABLES
    sources,    \* table sources: row id = index
    leads,      \* table leads_master: row id = index
    history,    \* table lead_sources_history
    run,        \* per process: the locals of its sync_* call
    policy,     \* "seq": runs in sequence; "cross": a Meta and a Knowlarity run
                \* overlap; "seeded": runs in sequence on a registry with rows;
                \* "same": two runs of one pipeline overlap
    budget,     \* per process: the runs it may still start
    seen        \* history of the runs that returned: <<pipeline, key, class>>

vars == <<sources, leads, history, run, policy, budget, seen>>

----------------------------------------------------------------------------
(* Bounds of the model *)

MaxFeed  == 2   \* records a provider delivers to one run
PageSize == 2   \* records in one fetched page
MaxLeads == 2   \* rows of leads_master
MaxHist  == 1   \* rows of lead_sources_history
MaxForms == 2   \* lead forms of one Meta run
MaxDay   == 2   \* calendar days a record can fall on; the last is the run's today
MaxRuns  == 3   \* runs of a sequence of runs
MaxFeedOverlap == 1   \* records delivered to a run that overlaps another

Procs == {1, 2}
Days  == 1..MaxDay

----------------------------------------------------------------------------
(* Phone identity normalizer *)

KeyLen == 10

Digits == {"0", "1", "2", "3", "4", "5", "6", "7", "8", "9"}

isdigit(ch) == ch \in Digits

\* Variant of normalize_phone_keep_10_digits that keeps the first ten digits.
normalize_phone_keep_first_10(raw) ==
    IF raw = <<>> THEN <<>>
    ELSE LET digits == SelectSeq(raw, isdigit)
         IN  IF Len(digits) < KeyLen THEN <<>>
             ELSE SubSeq(digits, 1, KeyLen)

\* knowlarity_sync.py 83-89: the normalizer of the Knowlarity sync.
\* A phone is a sequence of characters; <<>> stands for both None and "",
\* which the code treats alike (`if not raw`), and for the None result.
normalize_phone_keep_10_digits(raw) ==
    IF raw = <<>> THEN <<>>
    ELSE LET digits == SelectSeq(raw, isdigit)
         IN  IF Len(digits) < KeyLen THEN <<>>
             ELSE SubSeq(digits, Len(digits) - KeyLen + 1, Len(digits))

\* meta_sync.py 299-305: the normalizer of the Meta sync.
meta_normalize_phone_keep_10_digits(raw) ==
    IF raw = <<>> THEN <<>>
    ELSE LET digits == SelectSeq(raw, isdigit)
         IN  IF Len(digits) < KeyLen THEN <<>>
             ELSE SubSeq(digits, Len(digits) - KeyLen + 1, Len(digits))

PhoneA1    == <<"+","1"," ","(","5","5","5",")"," ","0","1","9","-","2","3","4","5">>
PhoneA2    == <<"5","5","5","0","1","9","2","3","4","5">>
PhoneB     == <<"9","1","9","8","7","6","5","4","3","2","1","0">>
PhoneShort == <<"0","1","9","-","2","3","4","5">>

\* The raw phones the providers deliver in this model.
RawPhones == {<<>>, PhoneShort, PhoneA1, PhoneA2, PhoneB}

KeyA == <<"5","5","5","0","1","9","2","3","4","5">>
KeyB == <<"9","8","7","6","5","4","3","2","1","0">>
Keys == {KeyA, KeyB}

----------------------------------------------------------------------------
(* Records delivered by the providers *)

\* created: 0 = absent, -1 = unparseable, d > 0 = a timestamp on day d.
CreatedValues == {-1, 0} \cup Days

Records == [phone : RawPhones, created : CreatedValues]

\* knowlarity_sync.py 375-384, meta_sync.py 515-524 and 556-557
created_date(created) == IF created > 0 THEN created ELSE 0

is_today_of(created, today_iso) ==
    IF created_date(created) = today_iso THEN 1 ELSE 0

----------------------------------------------------------------------------
(* The run of one process *)

NoTotal == -1   \* meta.total_count absent

Summary0 ==
    [processedRecords |-> 0, insertedNew |-> 0, crossSourceHistory |-> 0,
     duplicateSameSource |-> 0, skippedNoPhone |-> 0, errors |-> <<>>]

IdleRun ==
    [pc |-> "idle", kind |-> "none",
     source_row |-> [id |-> 0, total_leads_count |-> 0, todays_leads_count |-> 0],
     today_iso |-> 0, min_accepted_date |-> 0, min_aware |-> TRUE,
     summary |-> Summary0,
     inc_total |-> 0, inc_today |-> 0,
     forms_left |-> 0, has_more |-> FALSE,
     current_offset |-> 0, total_count |-> NoTotal, page_len |-> 0, pending |-> 0,
     uuid |-> 0, raw_phone |-> <<>>, normalized_phone |-> <<>>, is_today |-> 0,
     existing_leads |-> <<>>, chosen |-> 0,
     row |-> [total_leads_count |-> 0, todays_leads_count |-> 0],
     \* bookkeeping of the statements below, read by no action:
     applied_today |-> 0,      \* applied records created on today_iso
     counts_failed |-> FALSE,  \* some update_source_counts call failed
     written_total |-> 0,      \* deltas of the update_source_counts calls
     written_today |-> 0,      \*   that succeeded
     keys_done |-> {},         \* <<key, class>> of the records classified
     empty_page |-> FALSE]     \* the last page of this source/form was empty

Active(p) == run[p].pc \notin {"idle", "done", "raised"}

\* Variant of SourceName with one sources row for both pipelines.
SourceName_shared(kind) ==
    [display_name |-> "Meta", source_type |-> "meta_form"]

\* DISPLAY and TYPE of ensure_source_row
SourceName(kind) ==
    IF kind = "Meta" THEN [display_name |-> "Meta", source_type |-> "meta_form"]
    ELSE [display_name |-> "Knowlarity", source_type |-> "knowlarity_call"]

Kinds == {"Meta", "Knowlarity"}

KindOf(p) == IF p = 1 THEN "Meta" ELSE "Knowlarity"

Min(a, b) == IF a < b THEN a ELSE b

\* The orders in which a store query may return the rows S.
Orders(S) ==
    {f \in [1..Cardinality(S) -> S] : \A i, j \in DOMAIN f : i # j => f[i] # f[j]}

AppendError(r, entry) ==
    [r EXCEPT !.summary.errors = Append(@, entry)]

\* Variant of FlushStep that calls update_source_counts whatever the deltas.
FlushStep_always(r) == [r EXCEPT !.pc = "read_counts"]

\* knowlarity_sync.py 533-544: the end-of-run flush, up to its first store call.
FlushStep(r) ==
    IF r.inc_total > 0 \/ r.inc_today > 0
    THEN [r EXCEPT !.pc = "read_counts"]
    ELSE [r EXCEPT !.pc = "done"]

ClearRecord(r) ==
    [r EXCEPT !.uuid = 0, !.normalized_phone = <<>>, !.is_today = 0,
              !.existing_leads = <<>>, !.chosen = 0]

\* Variant of NextStep whose page loop goes on whatever total was declared.
NextStep_past_total(r0) ==
    LET r == ClearRecord(r0) IN
    IF r.pending > 0 THEN [r EXCEPT !.pc = "record"]
    ELSE IF r.kind = "Meta" THEN [r EXCEPT !.pc = "fetch", !.page_len = 0]
    ELSE [r EXCEPT !.current_offset = @ + r.page_len, !.pc = "fetch",
                   !.page_len = 0, !.total_count = NoTotal]

\* What follows the end of one record's loop body (`continue` included):
\* the next record of the page, or the end of the page
\* (knowlarity_sync.py 528-531; meta_sync.py 249-253 is taken in MetaFetch).
NextStep(r0) ==
    LET r == ClearRecord(r0) IN
    IF r.pending > 0 THEN [r EXCEPT !.pc = "record"]
    ELSE IF r.kind = "Meta" THEN [r EXCEPT !.pc = "fetch", !.page_len = 0]
    ELSE LET off == r.current_offset + r.page_len
             more == ~(r.page_len = 0 \/ (r.total_count # NoTotal /\ off >= r.total_count))
             r1 == [r EXCEPT !.current_offset = off, !.has_more = more,
                             !.page_len = 0, !.total_count = NoTotal]
         IN  IF more THEN [r1 EXCEPT !.pc = "fetch"] ELSE FlushStep(r1)

\* After ensure_source_row returned (knowlarity_sync.py 303-322, meta_sync.py 461-464).
Begin(r, row) ==
    IF r.kind = "Meta"
    THEN [r EXCEPT !.source_row = row, !.pc = "forms"]
    ELSE [r EXCEPT !.source_row = row, !.pc = "fetch", !.has_more = TRUE,
                   !.current_offset = 0]

MayStart(p, kind) ==
    /\ run[p].pc = "idle"
    /\ budget[p] > 0
    /\ policy = "cross" => kind = KindOf(p)
    /\ policy = "same" => \A q \in Procs \ {p} : run[q].kind \in {"none", kind}

\* Variant of MatchingSources that compares display_name with TYPE.
MatchingSources_mismatched(kind) ==
    {i \in DOMAIN sources :
        sources[i].display_name = SourceName(kind).source_type}

\* The rows the select of ensure_source_row returns
\* (knowlarity_sync.py 164-170, meta_sync.py 315-321).
MatchingSources(kind) ==
    {i \in DOMAIN sources :
        /\ sources[i].display_name = SourceName(kind).display_name
        /\ sources[i].source_type = SourceName(kind).source_type}

\* Variant of Raised in which the run goes on to its first fetch.
Raised_resumed(r) ==
    [IdleRun EXCEPT !.pc = "fetch", !.kind = r.kind, !.has_more = TRUE,
                    !.forms_left = 1, !.today_iso = r.today_iso,
                    !.min_accepted_date = r.min_accepted_date]

\* An exception leaves sync_*: nothing is returned, the locals are gone.
Raised(r) == [IdleRun EXCEPT !.pc = "raised", !.kind = r.kind]

\* The call of sync_* up to and including the select of ensure_source_row.
\* today_iso is the last day of the model; min_accepted_date (meta_sync.py
\* 430-454) is any day up to it, parsed from a string with an offset (aware)
\* or without one (naive); the runs that overlap are given an aware one.
StartRun(p, kind) ==
    /\ MayStart(p, kind)
    /\ budget' = [budget EXCEPT ![p] = @ - 1]
    /\ \E min_accepted_date \in (IF kind = "Meta" THEN Days ELSE {0}),
          min_aware \in (IF kind = "Meta" /\ policy \in {"seq", "seeded"}
                         THEN BOOLEAN ELSE {TRUE}) :
         LET r == [IdleRun EXCEPT !.kind = kind, !.today_iso = MaxDay,
                       !.min_accepted_date = min_accepted_date,
                       !.min_aware = min_aware]
             rows == MatchingSources(kind)
         IN  \/ run' = [run EXCEPT ![p] = Raised(r)]
             \/ \E i \in rows :
                   run' = [run EXCEPT ![p] = Begin(r,
                       [id |-> i,
                        total_leads_count |-> sources[i].total_leads_count,
                        todays_leads_count |-> sources[i].todays_leads_count])]
             \/ /\ rows = {}
                /\ run' = [run EXCEPT ![p] = [r EXCEPT !.pc = "ensure_insert"]]
    /\ UNCHANGED <<sources, leads, history, policy, seen>>

\* The insert of ensure_source_row: it reports an error, or it stores the row
\* and returns no row (both raise), or it returns the row it stored.
EnsureInsert(p) ==
    /\ run[p].pc = "ensure_insert"
    /\ \/ /\ run' = [run EXCEPT ![p] = Raised(run[p])]
          /\ UNCHANGED sources
       \/ /\ run' = [run EXCEPT ![p] = Raised(run[p])]
          /\ sources' = Append(sources,
                [display_name |-> SourceName(run[p].kind).display_name,
                 source_type |-> SourceName(run[p].kind).source_type,
                 total_leads_count |-> 0, todays_leads_count |-> 0])
       \/ /\ sources' = Append(sources,
                [display_name |-> SourceName(run[p].kind).display_name,
                 source_type |-> SourceName(run[p].kind).source_type,
                 total_leads_count |-> 0, todays_leads_count |-> 0])
          /\ run' = [run EXCEPT ![p] = Begin(run[p],
                [id |-> Len(sources) + 1, total_leads_count |-> 0,
                 todays_leads_count |-> 0])]
    /\ UNCHANGED <<leads, history, policy, budget, seen>>

\* meta_sync.py 464-495: the forms of the run; fetch_lead_forms may raise.
ResolveForms(p) ==
    /\ run[p].pc = "forms"
    /\ \/ run' = [run EXCEPT ![p] = Raised(run[p])]
       \/ run' = [run EXCEPT ![p].pc = "done"]
       \/ \E n \in 1..MaxForms :
             run' = [run EXCEPT ![p].forms_left = n, ![p].has_more = TRUE,
                                ![p].pc = "fetch"]
    /\ UNCHANGED <<sources, leads, history, policy, budget, seen>>

\* Records the provider may still deliver to this run.
FeedLeft(r) ==
    (IF policy \in {"cross", "same"} THEN MaxFeedOverlap ELSE MaxFeed)
        - r.summary.processedRecords

\* meta_sync.py 243-253 as driven by the loop of line 512: the generator
\* resumes after the last lead of a page (or starts), with has_more = next_url.
MetaFetch(p) ==
    /\ run[p].pc = "fetch"
    /\ run[p].kind = "Meta"
    /\ \/ /\ run[p].has_more
          /\ run' = [run EXCEPT ![p] = Raised(run[p])]
       \/ /\ run[p].has_more
          /\ \E n \in 0..Min(PageSize, FeedLeft(run[p])), next \in BOOLEAN :
                run' = [run EXCEPT ![p].pending = n, ![p].page_len = n,
                                   ![p].has_more = next,
                                   ![p].empty_page = (n = 0),
                                   ![p].pc = IF n > 0 THEN "record" ELSE "fetch"]
       \/ /\ ~run[p].has_more
          /\ run[p].forms_left > 1
          /\ run' = [run EXCEPT ![p].forms_left = @ - 1, ![p].has_more = TRUE,
                                ![p].empty_page = FALSE]
       \/ /\ ~run[p].has_more
          /\ run[p].forms_left <= 1
          /\ run' = [run EXCEPT ![p].forms_left = 0, ![p].pc = "done",
                                ![p].empty_page = FALSE]
    /\ UNCHANGED <<sources, leads, history, policy, budget, seen>>

\* knowlarity_sync.py 324-349
KnowlarityFetch(p) ==
    /\ run[p].pc = "fetch"
    /\ run[p].kind = "Knowlarity"
    /\ \/ run' = [run EXCEPT ![p] = FlushStep(AppendError(run[p],
                     [kind |-> "page", id |-> run[p].current_offset,
                      error |-> "fetch"]))]
       \/ run' = [run EXCEPT ![p] = FlushStep([run[p] EXCEPT !.has_more = FALSE,
                                                             !.empty_page = TRUE])]
       \/ \E n \in 1..Min(PageSize, FeedLeft(run[p])) :
           \E total \in {NoTotal, run[p].current_offset + n,
                         run[p].current_offset + n + 1} :
             run' = [run EXCEPT ![p].pending = n, ![p].page_len = n,
                                ![p].total_count = total, ![p].pc = "record"]
    /\ UNCHANGED <<sources, leads, history, policy, budget, seen>>

\* Variant of Skip that goes on to the duplicate check with no key.
Skip_to_lookup(r) == [r EXCEPT !.pc = "lookup"]

\* Variant of Skip that tallies nothing for the skipped record.
Skip_untallied(r) == NextStep(r)

\* knowlarity_sync.py 358-370, meta_sync.py 527-536 and 542-552
Skip(r) == NextStep([r EXCEPT !.summary.skippedNoPhone = @ + 1])

\* meta_sync.py 526-527: `created_dt and created_dt < min_accepted_date`.
\* created_time as Meta delivers it carries an offset, so that a created_dt
\* that parsed is aware; against a min_accepted_date parsed from a string
\* without offset (447-451) the comparison raises TypeError.
before_min(created_dt, r) ==
    IF created_dt = 0 THEN "no"
    ELSE IF ~r.min_aware THEN "TypeError"
    ELSE IF created_dt < r.min_accepted_date THEN "yes"
    ELSE "no"

\* The run after it took rec as the next record of its page, up to the
\* duplicate check (knowlarity_sync.py 351-384, meta_sync.py 512-557).
Taken(r0, rec) ==
    LET r == [r0 EXCEPT !.summary.processedRecords = @ + 1,
                        !.pending = @ - 1,
                        !.uuid = r0.summary.processedRecords + 1]
        created_dt == created_date(rec.created)
        filtered == IF r.kind = "Meta" THEN before_min(created_dt, r) ELSE "no"
        normalized == IF r.kind = "Meta"
                      THEN meta_normalize_phone_keep_10_digits(rec.phone)
                      ELSE normalize_phone_keep_10_digits(rec.phone)
    IN  IF filtered = "TypeError" THEN Raised(r)
        ELSE IF filtered = "yes" THEN Skip(r)
        ELSE IF normalized = <<>> THEN Skip(r)
        ELSE [r EXCEPT !.normalized_phone = normalized,
                       !.is_today = is_today_of(rec.created, r.today_iso),
                       !.pc = "lookup"]

\* knowlarity_sync.py 351-384, meta_sync.py 512-557: the next record of the
\* page, up to the duplicate check.
NextRecord(p) ==
    /\ run[p].pc = "record"
    /\ \E rec \in Records : run' = [run EXCEPT ![p] = Taken(run[p], rec)]
    /\ UNCHANGED <<sources, leads, history, policy, budget, seen>>

\* "error": str(err), the text of the store's error: here the name of the
\* store call that failed.
str_err(r) ==
    IF r.pc = "lookup" THEN "select leads_master"
    ELSE IF r.pc = "insert_lead" THEN "insert leads_master"
    ELSE "insert lead_sources_history"

\* Variant of RecordError that tries the record again from its duplicate check.
RecordError_retry(r) == [r EXCEPT !.pc = "lookup", !.existing_leads = <<>>]

\* The entry of a record in the errors list, with its provider-side id
\* (uuid, leadId), and `continue`.
RecordError(r) ==
    NextStep(AppendError(r, [kind |-> "record", id |-> r.uuid, error |-> str_err(r)]))

\* knowlarity_sync.py 461-470, meta_sync.py 619-628.
\* created_at: 0 = absent, -1 = unparseable, t > 0 = the instant t.
_ts(row) == IF row.created_at <= 0 THEN 0 ELSE row.created_at

\* Variant of cross_source with the comparison inverted.
cross_source_inverted(existing_leads, source_id) ==
    SelectSeq(existing_leads, LAMBDA i : leads[i].source_id = source_id)

\* knowlarity_sync.py 454-456, meta_sync.py 612-614
cross_source(existing_leads, source_id) ==
    SelectSeq(existing_leads, LAMBDA i : leads[i].source_id # source_id)

\* Variant of chosen_of that takes the last of the rows with the greatest _ts
\* (an ascending sort and its last element).
chosen_last(rows) ==
    rows[CHOOSE i \in DOMAIN rows :
            /\ \A j \in DOMAIN rows : _ts(leads[rows[j]]) <= _ts(leads[rows[i]])
            /\ \A j \in (i + 1)..Len(rows) : _ts(leads[rows[j]]) < _ts(leads[rows[i]])]

\* Variant of chosen_of that takes the first row of the query result.
chosen_first(rows) == rows[1]

\* sorted(rows, key=_ts, reverse=True)[0]: the sort is stable, so the first
\* row of the query result among those with the greatest _ts.
chosen_of(rows) ==
    rows[CHOOSE i \in DOMAIN rows :
            /\ \A j \in DOMAIN rows : _ts(leads[rows[j]]) <= _ts(leads[rows[i]])
            /\ \A j \in 1..(i - 1) : _ts(leads[rows[j]]) < _ts(leads[rows[i]])]

\* Variant of existing_rows whose select has no filter on the phone column.
existing_rows_any_key(phone, source_id) == DOMAIN leads

\* Variant of existing_rows that looks among the rows of the own source only.
existing_rows_own(phone, source_id) ==
    {i \in DOMAIN leads : /\ leads[i].phone_number_normalized = phone
                          /\ leads[i].source_id = source_id}

\* The rows the duplicate check selects: .eq("phone_number_normalized", phone)
\* (knowlarity_sync.py 387-392, meta_sync.py 560-565).
existing_rows(phone, source_id) ==
    {i \in DOMAIN leads : leads[i].phone_number_normalized = phone}

\* Variant of classify in which a row of the own source takes precedence.
classify_own_first(existing_leads, source_id) ==
    IF existing_leads = <<>> THEN "New"
    ELSE IF cross_source_inverted(existing_leads, source_id) # <<>> THEN "SameSource"
    ELSE "CrossSource"

\* Variant of classify that looks for rows of the own source only.
classify_per_source(existing_leads, source_id) ==
    IF cross_source_inverted(existing_leads, source_id) = <<>> THEN "New"
    ELSE "SameSource"

\* The three cases of knowlarity_sync.py 409, 452-458, 510 and
\* meta_sync.py 578, 610-616, 661.
classify(existing_leads, source_id) ==
    IF existing_leads = <<>> THEN "New"
    ELSE IF cross_source(existing_leads, source_id) # <<>> THEN "CrossSource"
    ELSE "SameSource"

Classified(r, class) ==
    [r EXCEPT !.keys_done = @ \cup {<<r.normalized_phone, class>>}]

\* Variant of same_source_duplicate that counts the duplicate for the source.
same_source_counted(r) ==
    NextStep([r EXCEPT !.summary.duplicateSameSource = @ + 1,
                       !.inc_total = @ + 1])

\* Case B: knowlarity_sync.py 510-515, meta_sync.py 661-663
same_source_duplicate(r) ==
    NextStep([r EXCEPT !.summary.duplicateSameSource = @ + 1])

\* Variant of LookupFailed that gives the run up.
LookupFailed_abort(r) == Raised(r)

\* A failed duplicate check: knowlarity_sync.py 394-405, meta_sync.py 566-574.
LookupFailed(r) == RecordError(r)

\* knowlarity_sync.py 386-409, 452-472, 510-515; meta_sync.py 559-578, 610-630, 661-663:
\* the duplicate check and the classification of its result.
Lookup(p) ==
    /\ run[p].pc = "lookup"
    /\ \/ run' = [run EXCEPT ![p] = LookupFailed(run[p])]
       \/ \E existing_leads \in
               Orders(existing_rows(run[p].normalized_phone, run[p].source_row.id)) :
             LET r == [run[p] EXCEPT !.existing_leads = existing_leads]
                 class == classify(existing_leads, r.source_row.id)
             IN  run' = [run EXCEPT ![p] =
                     IF class = "New" THEN [r EXCEPT !.pc = "insert_lead"]
                     ELSE IF class = "CrossSource"
                     THEN [r EXCEPT !.pc = "insert_history", !.chosen =
                              chosen_of(cross_source(existing_leads, r.source_row.id))]
                     ELSE same_source_duplicate(Classified(r, "own"))]
    /\ UNCHANGED <<sources, leads, history, policy, budget, seen>>

\* created_at is set by the store: its clock, one tick per row of leads_master.
Now == Len(leads) + 1

\* Variant of Applied that leaves the today delta out.
Applied_no_today(r0) ==
    LET r == [r0 EXCEPT !.applied_today = @ + r0.is_today] IN
    IF r.kind = "Meta"
    THEN [r EXCEPT !.inc_total = 1, !.inc_today = 0, !.pc = "read_counts"]
    ELSE NextStep([r EXCEPT !.inc_total = @ + 1])

\* What follows a successful insert: knowlarity_sync.py 448-450 and 506-508
\* accumulate, meta_sync.py 604-606 and 656-658 call update_source_counts(1, is_today).
Applied(r0) ==
    LET r == [r0 EXCEPT !.applied_today = @ + r0.is_today] IN
    IF r.kind = "Meta"
    THEN [r EXCEPT !.inc_total = 1, !.inc_today = r.is_today, !.pc = "read_counts"]
    ELSE NextStep([r EXCEPT !.inc_total = @ + 1, !.inc_today = @ + r.is_today])

\* Rows leads_master may hold; a seeded registry may take one more than its seed.
LeadCap == IF policy = "seeded" THEN MaxLeads + 1 ELSE MaxLeads

\* Variant of insert_payload with the status of the docstring of
\* sync_knowlarity_calls (knowlarity_sync.py 279).
insert_payload_pending(r) ==
    [phone_number_normalized |-> r.normalized_phone,
     source_id |-> r.source_row.id,
     status |-> "Pending", created_at |-> Now]

\* Variant of hist_payload that marks the sighting primary.
hist_payload_primary(r) ==
    [lead_id |-> r.chosen, source_id |-> r.source_row.id,
     phone |-> r.normalized_phone, is_primary |-> TRUE]

\* knowlarity_sync.py 415-429, meta_sync.py 580-592; created_at is the store's.
insert_payload(r) ==
    [phone_number_normalized |-> r.normalized_phone,
     source_id |-> r.source_row.id,
     status |-> "New", created_at |-> Now]

\* knowlarity_sync.py 478-487, meta_sync.py 632-639; phone: the phone of raw_payload.
hist_payload(r) ==
    [lead_id |-> r.chosen, source_id |-> r.source_row.id,
     phone |-> r.normalized_phone, is_primary |-> FALSE]

\* Variant of InsertFailed that tallies the record as applied all the same.
InsertFailed_applied(r) ==
    RecordError([r EXCEPT !.summary.insertedNew = @ + 1, !.inc_total = @ + 1])

\* A failed insert: knowlarity_sync.py 437-446 and 495-504,
\* meta_sync.py 594-602 and 646-654.
InsertFailed(r) == RecordError(r)

\* Variant of leads_master_insert that writes over the row of the same phone
\* when there is one (an upsert on phone_number_normalized).
leads_master_upsert(payload) ==
    IF \E i \in DOMAIN leads :
          leads[i].phone_number_normalized = payload.phone_number_normalized
    THEN [leads EXCEPT ![CHOOSE i \in DOMAIN leads :
             leads[i].phone_number_normalized = payload.phone_number_normalized]
                = payload]
    ELSE Append(leads, payload)

\* Variant of leads_master_insert that stores the row twice (the request
\* sent again after a lost answer).
leads_master_insert_twice(payload) == Append(Append(leads, payload), payload)

\* supabase.table("leads_master").insert(insert_payload).execute()
\* (knowlarity_sync.py 431-435, meta_sync.py 593): one more row.
leads_master_insert(payload) == Append(leads, payload)

\* knowlarity_sync.py 410-450, meta_sync.py 579-608: Case A
InsertLead(p) ==
    /\ run[p].pc = "insert_lead"
    /\ \/ /\ run' = [run EXCEPT ![p] = InsertFailed(run[p])]
          /\ UNCHANGED leads
       \/ /\ Len(leads) < LeadCap
          /\ leads' = leads_master_insert(insert_payload(run[p]))
          /\ run' = [run EXCEPT ![p] = Applied(Classified(
                [run[p] EXCEPT !.summary.insertedNew = @ + 1], "own"))]
    /\ UNCHANGED <<sources, history, policy, budget, seen>>

\* knowlarity_sync.py 459-508, meta_sync.py 617-660: Case C
InsertHistory(p) ==
    /\ run[p].pc = "insert_history"
    /\ \/ /\ run' = [run EXCEPT ![p] = InsertFailed(run[p])]
          /\ UNCHANGED history
       \/ /\ Len(history) < MaxHist
          /\ history' = Append(history, hist_payload(run[p]))
          /\ run' = [run EXCEPT ![p] = Applied(Classified(
                [run[p] EXCEPT !.summary.crossSourceHistory = @ + 1], "cross"))]
    /\ UNCHANGED <<sources, leads, policy, budget, seen>>

\* A failed update_source_counts: knowlarity_sync.py 537-544 reports it in the
\* summary and the run ends; meta_sync.py 607-608 and 659-660 only log it
\* and go on with the next lead.
CountsFailed(r0) ==
    LET r == [r0 EXCEPT !.counts_failed = TRUE,
                        !.row = IdleRun.row] IN
    IF r.kind = "Meta"
    THEN NextStep([r EXCEPT !.inc_total = 0, !.inc_today = 0])
    ELSE [AppendError(r, [kind |-> "counts", id |-> 0,
                          error |-> "updating source counts"]) EXCEPT !.pc = "done"]

CountsDone(r0) ==
    LET r == [r0 EXCEPT !.row = IdleRun.row,
                        !.written_total = @ + r0.inc_total,
                        !.written_today = @ + r0.inc_today] IN
    IF r.kind = "Meta"
    THEN NextStep([r EXCEPT !.inc_total = 0, !.inc_today = 0])
    ELSE [r EXCEPT !.pc = "done"]

\* update_source_counts, the select: knowlarity_sync.py 226-237, meta_sync.py 366-376
ReadCounts(p) ==
    /\ run[p].pc = "read_counts"
    /\ \/ run' = [run EXCEPT ![p] = CountsFailed(run[p])]
       \/ run' = [run EXCEPT
                ![p].row = [total_leads_count |->
                                sources[run[p].source_row.id].total_leads_count,
                            todays_leads_count |->
                                sources[run[p].source_row.id].todays_leads_count],
                ![p].pc = "write_counts"]
    /\ UNCHANGED <<sources, leads, history, policy, budget, seen>>

\* Variant of new_counts with the two deltas taken one for the other.
new_counts_swapped(r) ==
    [total_leads_count |-> r.row.total_leads_count + r.inc_today,
     todays_leads_count |-> r.row.todays_leads_count + r.inc_total]

\* Variant of new_counts that subtracts the deltas.
new_counts_subtracted(r) ==
    [total_leads_count |-> r.row.total_leads_count - r.inc_total,
     todays_leads_count |-> r.row.todays_leads_count - r.inc_today]

\* Variant of new_counts that adds to the counters as they are in the store
\* at the time of the update.
new_counts_in_store(r) ==
    [total_leads_count |-> sources[r.source_row.id].total_leads_count + r.inc_total,
     todays_leads_count |-> sources[r.source_row.id].todays_leads_count + r.inc_today]

\* new_total, new_today: knowlarity_sync.py 239-240, meta_sync.py 378-379;
\* r.row is the row as the select returned it.
new_counts(r) ==
    [total_leads_count |-> r.row.total_leads_count + r.inc_total,
     todays_leads_count |-> r.row.todays_leads_count + r.inc_today]

\* update_source_counts, the update: knowlarity_sync.py 239-255, meta_sync.py 378-393
WriteCounts(p) ==
    /\ run[p].pc = "write_counts"
    /\ \/ /\ run' = [run EXCEPT ![p] = CountsFailed(run[p])]
          /\ UNCHANGED sources
       \/ /\ sources' = [sources EXCEPT
                ![run[p].source_row.id].total_leads_count =
                    new_counts(run[p]).total_leads_count,
                ![run[p].source_row.id].todays_leads_count =
                    new_counts(run[p]).todays_leads_count]
          /\ run' = [run EXCEPT ![p] = CountsDone(run[p])]
    /\ UNCHANGED <<leads, history, policy, budget, seen>>

\* The caller has the result of sync_* (the summary, or the exception).
Finish(p) ==
    /\ run[p].pc \in {"done", "raised"}
    /\ run' = [run EXCEPT ![p] = IdleRun]
    /\ seen' = seen \cup {<<run[p].kind, kc[1], kc[2]>> : kc \in run[p].keys_done}
    /\ UNCHANGED <<sources, leads, history, policy, budget>>

Next ==
    \E p \in Procs :
        \/ \E kind \in Kinds : StartRun(p, kind)
        \/ EnsureInsert(p)
        \/ ResolveForms(p)
        \/ MetaFetch(p)
        \/ KnowlarityFetch(p)
        \/ NextRecord(p)
        \/ Lookup(p)
        \/ InsertLead(p)
        \/ InsertHistory(p)
        \/ ReadCounts(p)
        \/ WriteCounts(p)
        \/ Finish(p)

Init ==
    /\ sources = <<>>
    /\ leads = <<>>
    /\ history = <<>>
    /\ run = [p \in Procs |-> IdleRun]
    /\ seen = {}
    /\ policy = "seq"
    /\ budget = [p \in Procs |-> IF p = 1 THEN MaxRuns ELSE 0]

\* Runs one after another, in any order of the two pipelines.
Spec == Init /\ [][Next]_vars

InitCross ==
    /\ sources = <<>>
    /\ leads = <<>>
    /\ history = <<>>
    /\ run = [p \in Procs |-> IdleRun]
    /\ seen = {}
    /\ policy = "cross"
    /\ budget = [p \in Procs |-> 1]

\* One Meta run and one Knowlarity run at a time, overlapping freely.
SpecCross == InitCross /\ [][Next]_vars

\* A registry in which overlapping Meta runs have left two rows of KeyA, as
\* InsertLead does when both look up before either inserts; the Knowlarity
\* sync has not run yet.
SeedLeads ==
    {<<[phone_number_normalized |-> KeyA, source_id |-> 1, status |-> "New",
        created_at |-> ts[1]],
       [phone_number_normalized |-> KeyA, source_id |-> 1, status |-> "New",
        created_at |-> ts[2]]>> : ts \in {<<1, 2>>, <<2, 1>>}}

MaxSeed == 2   \* rows of KeyA in a registry both pipelines have written

\* created_at as the store returns it: absent (0), in a form that
\* fromisoformat rejects (-1), or an instant.
SeedTimes == {-1, 0} \cup Days

\* A registry in which overlapping runs of both pipelines have left rows of
\* KeyA, of either source (1: Meta, 2: Knowlarity), with any created_at.
MixedLeads ==
    UNION {[1..n -> [phone_number_normalized : {KeyA}, source_id : {1, 2},
                     status : {"New"}, created_at : SeedTimes]] : n \in 2..MaxSeed}

InitSeeded ==
    /\ history = <<>>
    /\ run = [p \in Procs |-> IdleRun]
    /\ policy = "seeded"
    /\ \/ /\ sources = <<[display_name |-> "Meta", source_type |-> "meta_form",
                          total_leads_count |-> 2, todays_leads_count |-> 0]>>
          /\ leads \in SeedLeads
          /\ seen = {<<"Meta", KeyA, "own">>}
          /\ budget = [p \in Procs |-> IF p = 1 THEN MaxRuns - 1 ELSE 0]
       \/ /\ sources = <<[display_name |-> "Meta", source_type |-> "meta_form",
                          total_leads_count |-> MaxSeed, todays_leads_count |-> 0],
                         [display_name |-> "Knowlarity",
                          source_type |-> "knowlarity_call",
                          total_leads_count |-> MaxSeed, todays_leads_count |-> 0]>>
          /\ leads \in MixedLeads
          /\ seen = {<<"Meta", KeyA, "own">>, <<"Knowlarity", KeyA, "own">>}
          /\ budget = [p \in Procs |-> IF p = 1 THEN 1 ELSE 0]

\* Runs one after another on a seeded registry.
SpecSeeded == InitSeeded /\ [][Next]_vars

\* A step of a Knowlarity run between its call and its return
\* (sync_knowlarity_calls, knowlarity_sync.py 303-550).
KnowlarityStep(p) ==
    /\ run[p].kind = "Knowlarity"
    /\ \/ EnsureInsert(p)
       \/ KnowlarityFetch(p)
       \/ NextRecord(p)
       \/ Lookup(p)
       \/ InsertLead(p)
       \/ InsertHistory(p)
       \/ ReadCounts(p)
       \/ WriteCounts(p)

NextLive ==
    \E p \in Procs :
        \/ StartRun(p, "Knowlarity")
        \/ EnsureInsert(p)
        \/ KnowlarityFetch(p)
        \/ NextRecord(p)
        \/ Lookup(p)
        \/ InsertLead(p)
        \/ InsertHistory(p)
        \/ ReadCounts(p)
        \/ WriteCounts(p)
        \/ Finish(p)

\* The registry after Meta runs; the Knowlarity sync has not run yet.
InitLive ==
    /\ history = <<>>
    /\ run = [p \in Procs |-> IdleRun]
    /\ policy = "seeded"
    /\ sources = <<[display_name |-> "Meta", source_type |-> "meta_form",
                    total_leads_count |-> 2, todays_leads_count |-> 0]>>
    /\ leads \in SeedLeads
    /\ seen = {<<"Meta", KeyA, "own">>}
    /\ budget = [p \in Procs |-> IF p = 1 THEN MaxRuns - 1 ELSE 0]

\* Knowlarity runs one after another on that registry. sync_knowlarity_calls
\* is one thread of straight-line Python: once called, its next statement is
\* executed, and every store or provider call returns or raises (the HTTP
\* calls carry timeouts). Nothing obliges anyone to call it again.
SpecLive ==
    InitLive /\ [][NextLive]_vars /\ \A p \in Procs : WF_vars(KnowlarityStep(p))

----------------------------------------------------------------------------
(* The two normalizers on one raw phone *)

MaxRaw == 6   \* characters typed after the start of a raw phone

PhoneChars == {"2", "5", "-", " "}

\* How a raw phone starts: with nothing, or with six digits.
PhoneStarts == {<<>>, <<"5", "5", "5", "0", "1", "9">>}

\* The provider's raw phone gets one more character; both pipelines are
\* handed the same raw phone (raw_phone of knowlarity_sync.py 355 and of
\* meta_sync.py 539).
TypePhone ==
    /\ \A p \in Procs : run[p].pc = "raw"
    /\ \E p \in Procs, start \in PhoneStarts :
          /\ Len(start) <= Len(run[p].raw_phone)
          /\ SubSeq(run[p].raw_phone, 1, Len(start)) = start
          /\ Len(run[p].raw_phone) - Len(start) < MaxRaw
    /\ \E ch \in PhoneChars :
          run' = [p \in Procs |-> [run[p] EXCEPT !.raw_phone = Append(@, ch)]]
    /\ UNCHANGED <<sources, leads, history, policy, budget, seen>>

\* knowlarity_sync.py 356, meta_sync.py 540: the call of the pipeline's normalizer.
NormalizePhone(p) ==
    /\ run[p].pc = "raw"
    /\ run' = [run EXCEPT ![p].normalized_phone =
                    IF run[p].kind = "Meta"
                    THEN meta_normalize_phone_keep_10_digits(run[p].raw_phone)
                    ELSE normalize_phone_keep_10_digits(run[p].raw_phone),
                          ![p].pc = "normalized"]
    /\ UNCHANGED <<sources, leads, history, policy, budget, seen>>

NextNorm == TypePhone \/ \E p \in Procs : NormalizePhone(p)

InitNorm ==
    /\ sources = <<>>
    /\ leads = <<>>
    /\ history = <<>>
    /\ \E raw \in PhoneStarts :
          run = [p \in Procs |-> [IdleRun EXCEPT !.pc = "raw", !.kind = KindOf(p),
                                                 !.raw_phone = raw]]
    /\ seen = {}
    /\ policy = "norm"
    /\ budget = [p \in Procs |-> 0]

\* Both normalizers applied to every raw phone of the bounded set.
SpecNorm == InitNorm /\ [][NextNorm]_vars

InitSame ==
    /\ sources = <<>>
    /\ leads = <<>>
    /\ history = <<>>
    /\ run = [p \in Procs |-> IdleRun]
    /\ seen = {}
    /\ policy = "same"
    /\ budget = [p \in Procs |-> 1]

\* Two runs, of the same pipeline when they overlap.
SpecSame == InitSame /\ [][Next]_vars

----------------------------------------------------------------------------
(* Statements *)

Tallies(r) ==
    r.summary.insertedNew + r.summary.crossSourceHistory
        + r.summary.duplicateSameSource + r.summary.skippedNoPhone

ErrorsOfKind(r, kind) ==
    Len(SelectSeq(r.summary.errors, LAMBDA e : e.kind = kind))

\* A record past line 352 (513) whose outcome is not tallied yet.
InFlight(r) ==
    IF r.pc \in {"lookup", "insert_lead", "insert_history"} THEN 1 ELSE 0

Returned(p) == run[p].pc = "done"

\* C1 as stated: when a run returns, processedRecords equals the four tallies
\* plus the length of the errors list.
C1_Original ==
    \A p \in Procs : Returned(p) =>
        run[p].summary.processedRecords =
            Tallies(run[p]) + Len(run[p].summary.errors)

\* C1, amended: every record is tallied exactly once, as new, cross-source,
\* same-source duplicate, skip or per-record error: at every moment of a run
\* processedRecords equals the four tallies plus the per-record entries of the
\* errors list (plus the one record being worked on); the errors list holds,
\* besides, at most one entry of a failed page fetch and at most one of a
\* failed counter flush, which stand for no record.
C1_OneTallyPerRecord ==
    \A p \in Procs :
        /\ run[p].summary.processedRecords =
              Tallies(run[p]) + ErrorsOfKind(run[p], "record") + InFlight(run[p])
        /\ ErrorsOfKind(run[p], "page") <= 1
        /\ ErrorsOfKind(run[p], "counts") <= 1
        /\ Len(run[p].summary.errors) =
              ErrorsOfKind(run[p], "record") + ErrorsOfKind(run[p], "page")
                + ErrorsOfKind(run[p], "counts")

C1_Witness ==
    \E p \in Procs :
        /\ Returned(p)
        /\ run[p].summary.processedRecords = 2
        /\ run[p].summary.insertedNew = 1
        /\ ErrorsOfKind(run[p], "record") = 1
        /\ ErrorsOfKind(run[p], "page") = 1

StoredTotal(p) == sources[run[p].source_row.id].total_leads_count
StoredToday(p) == sources[run[p].source_row.id].todays_leads_count

AppliedCount(r) == r.summary.insertedNew + r.summary.crossSourceHistory

InsertPending(p) == run[p].pc \in {"insert_lead", "insert_history"}

RowsOfKey(k) == {i \in DOMAIN leads : leads[i].phone_number_normalized = k}

\* C4: from an empty registry and with runs that do not overlap, no identity
\* key ever has two canonical-lead rows, and a lead is about to be inserted
\* only for a key that has no row.
C4_OneLeadPerKey ==
    /\ \A k \in Keys : Cardinality(RowsOfKey(k)) <= 1
    /\ \A p \in Procs :
          run[p].pc = "insert_lead" => RowsOfKey(run[p].normalized_phone) = {}

C4_Witness ==
    /\ Len(leads) = 2
    /\ leads[1].source_id # leads[2].source_id
    /\ Len(history) = 1
    /\ \E p \in Procs : Returned(p) /\ run[p].summary.duplicateSameSource = 1
    /\ \A p \in Procs : budget[p] = 0

\* The step is one of process p that adds no entry to its errors list.
StepOK(p) ==
    /\ run'[p] # run[p]
    /\ run'[p].summary.errors = run[p].summary.errors

OwnId(p) == run[p].source_row.id

LastLead == leads'[Len(leads')]

\* C5: with a Meta and a Knowlarity run overlapping, a key gets a second
\* canonical-lead row only from a run whose own lookup had returned no row
\* (the row already there belongs to the other pipeline and came in between),
\* so a key has at most one row per pipeline; C5_Witness is the state with two
\* rows of one key.
C5_DuplicateOnlyByStaleLookup ==
    /\ [](\A k \in Keys : \A i, j \in RowsOfKey(k) :
            i # j => leads[i].source_id # leads[j].source_id)
    /\ [][\A p \in Procs :
            (run[p].pc = "insert_lead" /\ run'[p] # run[p] /\ leads' # leads) =>
                /\ run[p].existing_leads = <<>>
                /\ Len(leads') = Len(leads) + 1
                /\ LastLead.phone_number_normalized = run[p].normalized_phone
                /\ LastLead.source_id = OwnId(p)
                /\ \A i \in RowsOfKey(run[p].normalized_phone) :
                       leads[i].source_id # OwnId(p)]_vars

C5_Witness ==
    /\ \E k \in Keys : Cardinality(RowsOfKey(k)) = 2
    /\ \A p \in Procs : Returned(p) /\ run[p].summary.insertedNew = 1
    /\ history = <<>>

\* C6: with a Meta and a Knowlarity run overlapping, the counters of a run's
\* source row are at every moment the counters the run found at its start plus
\* the deltas of its own update_source_counts calls that succeeded; when none
\* failed, these are the tallies of its summary.
C6_NoLostUpdate ==
    \A p \in Procs : OwnId(p) # 0 =>
        /\ StoredTotal(p) = run[p].source_row.total_leads_count + run[p].written_total
        /\ StoredToday(p) = run[p].source_row.todays_leads_count + run[p].written_today
        /\ (Returned(p) /\ ~run[p].counts_failed) =>
              /\ run[p].written_total = AppliedCount(run[p])
              /\ run[p].written_today = run[p].applied_today

C6_Witness ==
    /\ Returned(1) /\ run[1].written_total = 1 /\ StoredTotal(1) = 1
    /\ run[2].pc = "write_counts" /\ run[2].inc_total = 1
    /\ OwnId(1) # OwnId(2)

OtherTalliesKept(p) ==
    /\ run'[p].summary.processedRecords = run[p].summary.processedRecords
    /\ run'[p].summary.skippedNoPhone = run[p].summary.skippedNoPhone
    /\ run'[p].summary.errors = run[p].summary.errors

ForeignRows(k, own) == {i \in RowsOfKey(k) : leads[i].source_id # own}

OneOwner(k) == \A i, j \in RowsOfKey(k) : leads[i].source_id = leads[j].source_id

\* Row i is at least as recent as every row of S that has a valid timestamp.
MostRecent(i, S) ==
    \A j \in S : leads[j].created_at > 0 =>
        (leads[i].created_at > 0 /\ leads[j].created_at <= leads[i].created_at)

\* C8: when all rows of a record's key belong to one source A, a record of A
\* is classified SameSource, and a record of another source B is classified
\* CrossSource with, as its target, the most recently created of these rows.
C8_Classification ==
    [][\A p \in Procs :
        LET k == run[p].normalized_phone
            foreign == ForeignRows(k, OwnId(p))
        IN  (run[p].pc = "lookup" /\ StepOK(p) /\ RowsOfKey(k) # {} /\ OneOwner(k)) =>
              /\ foreign = {} =>
                    /\ run'[p].summary.duplicateSameSource
                          = run[p].summary.duplicateSameSource + 1
                    /\ run'[p].pc \notin {"insert_lead", "insert_history"}
              /\ foreign # {} =>
                    /\ run'[p].pc = "insert_history"
                    /\ run'[p].chosen \in foreign
                    /\ MostRecent(run'[p].chosen, foreign)
                    /\ run'[p].summary = run[p].summary]_vars

C8_Witness ==
    /\ \E p \in Procs : Returned(p) /\ run[p].kind = "Meta"
                          /\ run[p].summary.duplicateSameSource = 1
    /\ Len(history) = 1
    /\ Cardinality(ForeignRows(history[1].phone, history[1].source_id)) = 2
    /\ history[1].lead_id = 1
    /\ leads[2].created_at < leads[1].created_at

StartTotal(p) == run[p].source_row.total_leads_count
StartToday(p) == run[p].source_row.todays_leads_count

\* C9: the step that classifies a record SameSource writes nothing: no row of
\* leads_master, lead_sources_history or sources changes, the deltas kept for
\* the end-of-run flush stay as they are, and of the summary only the
\* same-source tally grows, by one; a run whose records are all skipped,
\* duplicates or errors leaves the counters of its source untouched.
C9_SameSourceFrame ==
    /\ [](\A p \in Procs :
            (OwnId(p) # 0 /\ AppliedCount(run[p]) = 0) =>
                /\ StoredTotal(p) = StartTotal(p)
                /\ StoredToday(p) = StartToday(p)
                /\ run[p].pc \notin {"read_counts", "write_counts"})
    /\ [][\A p \in Procs :
            (run'[p].summary.duplicateSameSource > run[p].summary.duplicateSameSource) =>
                /\ run[p].pc = "lookup"
                /\ run'[p].summary.duplicateSameSource
                      = run[p].summary.duplicateSameSource + 1
                /\ UNCHANGED <<leads, history, sources>>
                /\ run'[p].inc_total = run[p].inc_total
                /\ run'[p].inc_today = run[p].inc_today
                /\ run'[p].summary.insertedNew = run[p].summary.insertedNew
                /\ run'[p].summary.crossSourceHistory = run[p].summary.crossSourceHistory
                /\ OtherTalliesKept(p)]_vars

C9_Witness ==
    \E p \in Procs :
        /\ Returned(p) /\ run[p].kind = "Knowlarity"
        /\ run[p].summary.duplicateSameSource = 1
        /\ run[p].summary.insertedNew = 1
        /\ ~run[p].counts_failed
        /\ StoredTotal(p) = StartTotal(p) + 1

Processing ==
    {"fetch", "record", "lookup", "insert_lead", "insert_history",
     "read_counts", "write_counts"}

\* C11: once a run has started to fetch and process records, no failure of a
\* fetch or of a store call makes sync_knowlarity_calls or sync_meta_leads
\* raise: the run goes on to return its summary.
C11_Original ==
    [][\A p \in Procs :
          run[p].pc \in Processing => run'[p].pc # "raised"]_vars

\* The page-level entry of the errors list for the fetch that failed.
PageError(r) == [kind |-> "page", id |-> r.current_offset, error |-> "fetch"]

\* C12: when the fetch of a page fails after records of earlier pages were
\* processed, the run fetches no further page, the rows of leads_master and
\* lead_sources_history stay, a page-level entry is appended to the errors
\* list of the summary, and the run goes on to its end with the summary,
\* the pending counter deltas being flushed.
C12_Original ==
    [][\A p \in Procs :
          (/\ run[p].pc = "fetch" /\ run[p].summary.processedRecords > 0
           /\ run'[p].pc \in {"raised", "read_counts", "done"}
           /\ (run'[p].pc = "raised" \/ run'[p].summary.errors # run[p].summary.errors)) =>
             /\ run'[p].summary.errors = Append(run[p].summary.errors, PageError(run[p]))
             /\ UNCHANGED <<leads, history>>
             /\ run'[p].pc = (IF run[p].inc_total > 0 THEN "read_counts" ELSE "done")]_vars

\* The errors list with an entry of the record in hand appended.
WithRecordError(p, error) ==
    Append(run[p].summary.errors,
           [kind |-> "record", id |-> run[p].uuid, error |-> error])

\* The run goes on after the record in hand: to the next record of the page
\* if there is one, else to the next fetch or to the end of the run.
GoesOn(p) ==
    /\ run'[p].kind = run[p].kind
    /\ run'[p].source_row = run[p].source_row
    /\ run'[p].summary.processedRecords = run[p].summary.processedRecords
    /\ IF run[p].pending > 0
       THEN run'[p].pc = "record" /\ run'[p].pending = run[p].pending
       ELSE run'[p].pc \in {"fetch", "read_counts", "done"}

\* C13: a failed lookup of the record's key writes nothing (no row of
\* leads_master or lead_sources_history, no counter, no delta for the flush),
\* appends to the errors list one entry with the record's external id, changes
\* no tally, and the run goes on with the next record.
C13_LookupFailure ==
    [][\A p \in Procs :
          (/\ run[p].pc = "lookup"
           /\ run'[p] # run[p]
           /\ run'[p].pc \notin {"insert_lead", "insert_history"}
           /\ run'[p].summary.duplicateSameSource = run[p].summary.duplicateSameSource) =>
             /\ run'[p].summary.errors = WithRecordError(p, "select leads_master")
             /\ UNCHANGED <<leads, history, sources>>
             /\ run'[p].inc_total = run[p].inc_total
             /\ run'[p].inc_today = run[p].inc_today
             /\ run'[p].summary.insertedNew = run[p].summary.insertedNew
             /\ run'[p].summary.crossSourceHistory = run[p].summary.crossSourceHistory
             /\ run'[p].summary.skippedNoPhone = run[p].summary.skippedNoPhone
             /\ GoesOn(p)]_vars

\* A Knowlarity run on a registry whose keys are all Knowlarity's own: the
\* lookup of its first record failed, its second record was a duplicate.
C13_Witness ==
    \E p \in Procs :
        /\ Returned(p) /\ run[p].kind = "Knowlarity"
        /\ Len(leads) = 2
        /\ \A i \in DOMAIN leads : leads[i].source_id = OwnId(p)
        /\ run[p].summary.insertedNew = 0
        /\ run[p].summary.processedRecords = 2
        /\ run[p].summary.duplicateSameSource = 1
        /\ run[p].summary.errors =
              <<[kind |-> "record", id |-> 1, error |-> "select leads_master"]>>

\* C14: a failed insert of a canonical lead or of a sighting adds no row,
\* appends to the errors list one entry with the record's provider-side id,
\* increments neither the new nor the cross-source tally (nor any other),
\* adds nothing to the deltas of the counters and writes no counter, and the
\* loop goes on with the next record.
C14_InsertFailure ==
    [][\A p \in Procs :
          (/\ run[p].pc \in {"insert_lead", "insert_history"}
           /\ run'[p] # run[p]
           /\ leads' = leads /\ history' = history) =>
             /\ run'[p].summary.errors =
                   WithRecordError(p, IF run[p].pc = "insert_lead"
                                      THEN "insert leads_master"
                                      ELSE "insert lead_sources_history")
             /\ sources' = sources
             /\ run'[p].inc_total = run[p].inc_total
             /\ run'[p].inc_today = run[p].inc_today
             /\ run'[p].applied_today = run[p].applied_today
             /\ run'[p].summary.insertedNew = run[p].summary.insertedNew
             /\ run'[p].summary.crossSourceHistory = run[p].summary.crossSourceHistory
             /\ run'[p].summary.duplicateSameSource = run[p].summary.duplicateSameSource
             /\ run'[p].summary.skippedNoPhone = run[p].summary.skippedNoPhone
             /\ GoesOn(p)]_vars

\* A Knowlarity run whose first insert of a lead failed and whose second
\* record was then inserted; only the second reached the counters.
C14_Witness ==
    \E p \in Procs :
        /\ Returned(p) /\ run[p].kind = "Knowlarity"
        /\ run[p].summary.processedRecords = 2
        /\ run[p].summary.insertedNew = 1
        /\ run[p].summary.errors =
              <<[kind |-> "record", id |-> 1, error |-> "insert leads_master"]>>
        /\ Len(leads) = 1
        /\ StoredTotal(p) = StartTotal(p) + 1

\* C15: a failed counter update (its read or its write) is reported in the
\* errors list of the summary the run returns, in both pipelines, and the
\* failure removes no row of leads_master or lead_sources_history.
C15_Original ==
    /\ [](\A p \in Procs :
            (Returned(p) /\ run[p].counts_failed) =>
                ErrorsOfKind(run[p], "counts") > 0)
    /\ [][\A p \in Procs :
            (run[p].pc \in {"read_counts", "write_counts"} /\ run'[p] # run[p]) =>
                UNCHANGED <<leads, history>>]_vars

\* C16: no read and no write of the source's counters is issued for deltas
\* that are both zero: a counter update in progress carries a total delta
\* above zero, a counter of sources changes only in the write of such an
\* update, and a run whose records were all skipped, duplicates or errors
\* returns without having attempted an update.
C16_NoZeroDeltaUpdate ==
    /\ [](\A p \in Procs :
            /\ run[p].pc \in {"read_counts", "write_counts"} =>
                  run[p].inc_total > 0 /\ AppliedCount(run[p]) > 0
            /\ (Returned(p) /\ AppliedCount(run[p]) = 0) =>
                  /\ run[p].written_total = 0 /\ run[p].written_today = 0
                  /\ ~run[p].counts_failed
                  /\ ErrorsOfKind(run[p], "counts") = 0)
    /\ [][\A i \in DOMAIN sources :
            sources'[i] # sources[i] =>
                \E p \in Procs : /\ run[p].pc = "write_counts"
                                 /\ run[p].source_row.id = i
                                 /\ run[p].inc_total > 0]_vars

\* A Knowlarity run of two records, one without a usable phone and one whose
\* lookup failed, has returned; the counters of its source are as it found them.
C16_Witness ==
    \E p \in Procs :
        /\ Returned(p) /\ run[p].kind = "Knowlarity"
        /\ run[p].summary.processedRecords = 2
        /\ run[p].summary.skippedNoPhone = 1
        /\ ErrorsOfKind(run[p], "record") = 1
        /\ AppliedCount(run[p]) = 0
        /\ StoredTotal(p) = StartTotal(p)
        /\ StoredToday(p) = StartToday(p)

\* The rows of sources of a pipeline's (display name, source type) pair.
RowsOfPair(kind) ==
    {i \in DOMAIN sources :
        /\ sources[i].display_name = kind
        /\ sources[i].source_type =
              (IF kind = "Meta" THEN "meta_form" ELSE "knowlarity_call")}

\* C17: with runs one after another, ensure_source_row returns the row of the
\* pipeline's pair as it is stored when there is one, and issues no insert;
\* otherwise it inserts one row with both counters zero and returns it.  So
\* sources never holds two rows of one pair, and every run of a pipeline works
\* with the id of that one row.
C17_EnsureSourceIdempotent ==
    /\ [](\A kind \in Kinds : Cardinality(RowsOfPair(kind)) <= 1)
    /\ [](\A p \in Procs :
            run[p].source_row.id # 0 => RowsOfPair(run[p].kind) = {run[p].source_row.id})
    /\ [][\A p \in Procs :
            /\ (run[p].pc = "idle" /\ run'[p].pc \notin {"idle", "raised"}) =>
                  IF RowsOfPair(run'[p].kind) = {}
                  THEN run'[p].pc = "ensure_insert" /\ run'[p].source_row.id = 0
                  ELSE /\ sources' = sources
                       /\ run'[p].pc # "ensure_insert"
                       /\ \E i \in RowsOfPair(run'[p].kind) :
                            run'[p].source_row =
                               [id |-> i,
                                total_leads_count |-> sources[i].total_leads_count,
                                todays_leads_count |-> sources[i].todays_leads_count]
            /\ (run[p].pc = "ensure_insert" /\ run'[p].pc # "raised"
                                            /\ run'[p] # run[p]) =>
                  /\ sources' = Append(sources,
                        [display_name |-> run[p].kind,
                         source_type |-> (IF run[p].kind = "Meta" THEN "meta_form"
                                          ELSE "knowlarity_call"),
                         total_leads_count |-> 0, todays_leads_count |-> 0])
                  /\ run'[p].source_row =
                        [id |-> Len(sources) + 1, total_leads_count |-> 0,
                         todays_leads_count |-> 0]]_vars
    /\ [][Len(sources') # Len(sources) =>
            \E p \in Procs : /\ run[p].pc = "ensure_insert"
                             /\ RowsOfPair(run[p].kind) = {}]_vars

\* A later run of a pipeline has been handed the one row of its pair, with
\* the counters an earlier run of the pipeline left in it.
C17_Witness ==
    \E p \in Procs :
        /\ run[p].pc = "fetch"
        /\ run[p].source_row.id = 1
        /\ run[p].source_row.total_leads_count = 2
        /\ sources[1].total_leads_count = 2
        /\ Len(sources) = 2
        /\ RowsOfPair(run[p].kind) = {1}

\* C18: a failure of the select or of the insert of ensure_source_row ends
\* the run with an exception before any page is fetched: a run has a source
\* id whenever it fetches, processes or updates counters; the failing step
\* and the raised run write no row of leads_master or lead_sources_history
\* and no counter; every row written carries the id of a row of sources.
C18_EnsureFailureAborts ==
    /\ [](\A p \in Procs :
            run[p].source_row.id = 0 =>
                /\ run[p].pc \in {"idle", "ensure_insert", "raised"}
                /\ run[p].summary = Summary0)
    /\ [](/\ \A i \in DOMAIN leads : leads[i].source_id \in DOMAIN sources
          /\ \A i \in DOMAIN history : history[i].source_id \in DOMAIN sources)
    /\ [][\A p \in Procs :
            /\ (run[p].pc \in {"idle", "ensure_insert"} /\ run'[p].pc = "raised") =>
                  /\ UNCHANGED <<leads, history>>
                  /\ \A i \in DOMAIN sources : sources'[i] = sources[i]
            /\ (run[p].pc = "raised" /\ run'[p] # run[p]) =>
                  /\ run'[p] = IdleRun
                  /\ UNCHANGED <<leads, history, sources>>]_vars

\* The Knowlarity sync has raised while sources holds no Knowlarity row: its
\* ensure_source_row failed; the lead and the counter the Meta sync wrote
\* before are as they were.
C18_Witness ==
    \E p \in Procs :
        /\ run[p].pc = "raised" /\ run[p].kind = "Knowlarity"
        /\ RowsOfPair("Knowlarity") = {}
        /\ Len(leads) = 1 /\ leads[1].source_id = 1
        /\ Len(sources) = 1 /\ sources[1].total_leads_count = 1

\* C19: with no two runs of one source overlapping, the total and the today
\* counter of every row of sources are never negative, and no step lowers
\* either: each write of update_source_counts stores values at least as
\* great as those in the store at that moment.
C19_CountersMonotonic ==
    /\ [](\A i \in DOMAIN sources :
            sources[i].total_leads_count >= 0 /\ sources[i].todays_leads_count >= 0)
    /\ [][\A i \in DOMAIN sources :
            /\ sources'[i].total_leads_count >= sources[i].total_leads_count
            /\ sources'[i].todays_leads_count >= sources[i].todays_leads_count]_vars

\* A run has returned after its second write of the counters: both grew.
C19_Witness ==
    \E p \in Procs :
        /\ Returned(p) /\ run[p].kind = "Meta"
        /\ ~run[p].counts_failed
        /\ run[p].written_total = 2
        /\ StoredTotal(p) = StartTotal(p) + 2
        /\ StoredToday(p) = StartToday(p) + 1

\* C20: update_source_counts is a read-modify-write in two store calls.  When
\* two runs of one source overlap, a write whose read is stale (another write
\* of the row came in between) stores the value it read plus its own deltas,
\* which is less than the stored total plus its deltas: the increments of the
\* write in between are lost.
C20_LostUpdate ==
    [][\A p \in Procs :
          LET i == run[p].source_row.id IN
          (/\ run[p].pc = "write_counts"
           /\ run'[p].pc # "write_counts"
           /\ sources' # sources
           /\ sources[i].total_leads_count # run[p].row.total_leads_count) =>
             /\ sources'[i].total_leads_count =
                   run[p].row.total_leads_count + run[p].inc_total
             /\ sources'[i].total_leads_count <
                   sources[i].total_leads_count + run[p].inc_total]_vars

\* Two runs of one source have returned, each after one successful counter
\* update with a total delta of one, and the stored total is one, not two.
C20_Witness ==
    /\ \A p \in Procs :
          /\ Returned(p)
          /\ run[p].source_row.id = 1
          /\ run[p].source_row.total_leads_count = 0
          /\ run[p].written_total = 1
          /\ ~run[p].counts_failed
    /\ sources[1].total_leads_count = 1

RECURSIVE DigitsOf(_)
\* The digits of a raw phone, in their order.
DigitsOf(raw) ==
    IF raw = <<>> THEN <<>>
    ELSE IF Head(raw) \in {"0", "1", "2", "3", "4", "5", "6", "7", "8", "9"}
         THEN <<Head(raw)>> \o DigitsOf(Tail(raw))
         ELSE DigitsOf(Tail(raw))

\* C21: for every raw phone, each pipeline's normalizer returns no identity
\* when the phone is empty or holds fewer than ten digits, and otherwise the
\* ten rightmost of its digits, in their order; the two normalizers return
\* the same on the same raw phone.
C21_Normalizer ==
    /\ \A p \in Procs :
          run[p].pc = "normalized" =>
             LET d == DigitsOf(run[p].raw_phone)
                 key == run[p].normalized_phone
             IN  IF Len(d) < 10 THEN key = <<>>
                 ELSE /\ Len(key) = 10
                      /\ \A i \in 1..10 : key[i] = d[Len(d) - 10 + i]
    /\ (\A p \in Procs : run[p].pc = "normalized") =>
          \A p, q \in Procs : run[p].normalized_phone = run[q].normalized_phone

\* Both normalizers were given a raw phone of eleven digits and a separator
\* and returned its last ten digits.
C21_Witness ==
    /\ \A p \in Procs :
          /\ run[p].pc = "normalized"
          /\ run[p].raw_phone =
                <<"5", "5", "5", "0", "1", "9", "-", "2", "2", "5", "2", "5">>
          /\ run[p].normalized_phone =
                <<"5", "5", "0", "1", "9", "2", "2", "5", "2", "5">>

\* C22: a record without an identity key never reaches the store: whenever a
\* lookup or an insert is about to be issued the record has a ten-digit key,
\* and so has every row written; the step that skips a record (it neither
\* goes on to the lookup nor raises at the date comparison that precedes the
\* reading of the phone) changes no table, no counter and no delta, adds one
\* to the skipped tally and nothing to the errors list or to another tally,
\* and leads to the next record.
C22_SkipNoIdentity ==
    /\ [](\A p \in Procs :
            run[p].pc \in {"lookup", "insert_lead", "insert_history"} =>
                Len(run[p].normalized_phone) = 10)
    /\ [](\A i \in DOMAIN leads : Len(leads[i].phone_number_normalized) = 10)
    /\ [][\A p \in Procs :
            (/\ run[p].pc = "record"
             /\ run'[p].pc \notin {"lookup", "raised"}
             /\ run'[p] # run[p]) =>
                /\ run'[p].summary.skippedNoPhone = run[p].summary.skippedNoPhone + 1
                /\ run'[p].summary.processedRecords = run[p].summary.processedRecords + 1
                /\ run'[p].summary.errors = run[p].summary.errors
                /\ run'[p].summary.insertedNew = run[p].summary.insertedNew
                /\ run'[p].summary.crossSourceHistory = run[p].summary.crossSourceHistory
                /\ run'[p].summary.duplicateSameSource = run[p].summary.duplicateSameSource
                /\ run'[p].inc_total = run[p].inc_total
                /\ run'[p].inc_today = run[p].inc_today
                /\ UNCHANGED <<leads, history, sources>>
                /\ run'[p].pc \in {"record", "fetch", "read_counts", "done"}]_vars

\* A Knowlarity run of one record without a usable phone has returned.
C22_Witness ==
    \E p \in Procs :
        /\ Returned(p) /\ run[p].kind = "Knowlarity"
        /\ run[p].summary.processedRecords = 1
        /\ run[p].summary.skippedNoPhone = 1
        /\ run[p].summary.errors = <<>>
        /\ leads = <<>> /\ history = <<>>
        /\ StoredTotal(p) = 0 /\ StoredToday(p) = 0
        /\ run[p].written_total = 0 /\ ~run[p].counts_failed

\* C23: a record whose key has at least one row of another source is
\* classified CrossSource, rows of the own source or not; a record is
\* classified SameSource only when its key has rows and all are of the own
\* source; and New only when its key has no row.
C23_ForeignFirst ==
    [][\A p \in Procs :
        LET k == run[p].normalized_phone
            foreign == ForeignRows(k, OwnId(p))
        IN  (run[p].pc = "lookup" /\ StepOK(p)) =>
              /\ foreign # {} =>
                    /\ run'[p].pc = "insert_history"
                    /\ run'[p].chosen \in foreign
                    /\ run'[p].summary.duplicateSameSource
                          = run[p].summary.duplicateSameSource
              /\ (run'[p].summary.duplicateSameSource
                          # run[p].summary.duplicateSameSource) =>
                    RowsOfKey(k) # {} /\ foreign = {}
              /\ run'[p].pc = "insert_lead" => RowsOfKey(k) = {}]_vars

\* A sighting was written for a key that also has a row of the sighting's
\* own source, older than the run.
C23_Witness ==
    /\ Len(history) = 1
    /\ \E p \in Procs :
          /\ Returned(p) /\ run[p].summary.crossSourceHistory = 1
          /\ run[p].summary.insertedNew = 0
          /\ history[1].source_id = OwnId(p)
    /\ \E i, j \in RowsOfKey(history[1].phone) :
          /\ leads[i].source_id = history[1].source_id
          /\ leads[j].source_id # history[1].source_id
          /\ history[1].lead_id = j

\* The creation timestamp of row i is present and parseable.
ValidTime(i) == leads[i].created_at > 0

\* C24: among the rows of other sources that the lookup returned, the one
\* chosen as the sighting's target has a valid creation timestamp whenever
\* one of them has, and then the greatest; no row before it in the order of
\* the lookup result is its equal: when none has a valid timestamp it is
\* the first of them in that order, and when several share the greatest
\* timestamp it is the first of those.
C24_TieBreak ==
    [][\A p \in Procs :
        (run[p].pc = "lookup" /\ run'[p].pc = "insert_history") =>
          LET res == run'[p].existing_leads
              own == OwnId(p)
              foreign == {q \in DOMAIN res : leads[res[q]].source_id # own}
              c == run'[p].chosen
          IN  /\ \E q \in foreign : res[q] = c
              /\ (\E q \in foreign : ValidTime(res[q])) =>
                    /\ ValidTime(c)
                    /\ \A q \in foreign :
                          ValidTime(res[q]) => leads[res[q]].created_at <= leads[c].created_at
              /\ \A q \in foreign :
                    (res[q] = c) =>
                       \A b \in foreign :
                          b < q => IF ValidTime(c)
                                   THEN ~ValidTime(res[b])
                                        \/ leads[res[b]].created_at < leads[c].created_at
                                   ELSE FALSE]_vars

\* Both rows of the key are of another source, one with an unparseable and
\* one with no timestamp; the lookup returned the second row first and it
\* was chosen.
C24_Witness ==
    \E p \in Procs :
        /\ run[p].pc = "insert_history"
        /\ run[p].existing_leads = <<2, 1>>
        /\ run[p].chosen = 2
        /\ leads[1].source_id # OwnId(p) /\ leads[2].source_id # OwnId(p)
        /\ leads[1].created_at = 0 /\ leads[2].created_at = -1

\* C25: whatever the interleaving of a Meta run and a Knowlarity run, every
\* row of lead_sources_history is not primary and refers to a row of
\* leads_master that exists, carries the identity key of the record that
\* caused the sighting, and belongs to a source other than the sighting's.
C25_SightingsWellFormed ==
    \A h \in DOMAIN history :
        /\ history[h].is_primary = FALSE
        /\ history[h].lead_id \in DOMAIN leads
        /\ leads[history[h].lead_id].phone_number_normalized = history[h].phone
        /\ leads[history[h].lead_id].source_id # history[h].source_id

\* Both runs are under way; one has inserted the lead of a key and the
\* other has recorded its sighting of it.
C25_Witness ==
    /\ \A p \in Procs : Active(p)
    /\ \E p, q \in Procs :
          /\ run[p].kind = "Meta" /\ run[q].kind = "Knowlarity"
          /\ run[p].summary.crossSourceHistory + run[q].summary.crossSourceHistory = 1
    /\ Len(history) = 1
    /\ history[1].lead_id \in DOMAIN leads
    /\ leads[history[1].lead_id].source_id # history[1].source_id

\* C26: once a page fetched for a source or form held no records, no further
\* page is fetched for it in either pipeline, whatever the provider says of
\* more data: the run at its fetch step after an empty page neither
\* receives records nor fails on a request.
C26_Original ==
    [][\A p \in Procs :
        (run[p].pc = "fetch" /\ run[p].empty_page) =>
            /\ run'[p].pending = 0
            /\ run'[p].pc \notin {"record", "raised"}]_vars

\* The Knowlarity half of C26, which the code keeps: a page without records
\* ends the paging loop even when no declared total was reached.
KnowlarityHardStop ==
    \A p \in Procs :
        (run[p].kind = "Knowlarity" /\ run[p].empty_page) =>
            /\ ~run[p].has_more
            /\ run[p].pc \in {"read_counts", "write_counts", "done"}

\* Records of the current page that are still to be served once the step
\* under way is over (a step at "record" takes the next one).
Unserved(r) == r.pending - (IF r.pc = "record" THEN 1 ELSE 0)

\* C27: a Knowlarity run is at its page fetch only when every record of the
\* pages fetched so far has reached its outcome (none pending, none in
\* flight, the offset equal to the records tallied); the offset changes only
\* at the end of a page, by the number of records of that page; and the run
\* goes back to the fetch only when the offset so reached is below the
\* total the provider declared with the page, if it declared one.
C27_KnowlarityPaging ==
    /\ [](\A p \in Procs :
            (run[p].kind = "Knowlarity" /\ run[p].pc = "fetch") =>
                /\ run[p].pending = 0 /\ run[p].uuid = 0
                /\ run[p].summary.processedRecords = run[p].current_offset
                /\ run[p].current_offset =
                      Tallies(run[p]) + ErrorsOfKind(run[p], "record"))
    /\ [][\A p \in Procs :
            (run[p].kind = "Knowlarity" /\ run'[p].kind = "Knowlarity") =>
                /\ run'[p].current_offset # run[p].current_offset =>
                      /\ Unserved(run[p]) = 0 /\ run[p].page_len > 0
                      /\ run'[p].current_offset =
                            run[p].current_offset + run[p].page_len
                /\ (run[p].pc = "fetch" /\ run'[p].pc = "record") =>
                      /\ run'[p].page_len = run'[p].pending
                      /\ run'[p].page_len > 0
                      /\ run'[p].current_offset = run[p].current_offset
                /\ (run[p].pc \notin {"fetch", "ensure_insert"} /\ run'[p].pc = "fetch") =>
                      /\ Unserved(run[p]) = 0
                      /\ run[p].total_count # NoTotal =>
                            run'[p].current_offset < run[p].total_count]_vars

\* The second page of a Knowlarity run: fetched at offset 1 after a first
\* page of one record, it holds one record and declares a total of 2.
C27_Witness ==
    \E p \in Procs :
        /\ run[p].kind = "Knowlarity"
        /\ run[p].pc = "lookup"
        /\ run[p].current_offset = 1
        /\ run[p].page_len = 1
        /\ run[p].total_count = 2
        /\ run[p].summary.processedRecords = 2

LoopPcs == {"fetch", "record", "lookup", "insert_lead", "insert_history"}

\* C28: a Knowlarity run on a finite feed that is in its page loop
\* eventually returns its summary, whatever store calls fail on the way; it
\* leaves the loop into the counter flush (the update when a delta is
\* above zero, the return otherwise); and the offset grows at the end of
\* every page that held records.
C28_Termination ==
    /\ \A p \in Procs :
          (run[p].kind = "Knowlarity" /\ run[p].pc \in LoopPcs) ~> Returned(p)
    /\ [][\A p \in Procs :
            (run[p].kind = "Knowlarity" /\ run'[p] # run[p]) =>
               /\ (run[p].pc \in LoopPcs /\ run'[p].pc \notin LoopPcs) =>
                     run'[p].pc = IF run'[p].inc_total > 0 \/ run'[p].inc_today > 0
                                  THEN "read_counts" ELSE "done"
               /\ (run[p].page_len > 0 /\ run'[p].page_len = 0) =>
                     run'[p].current_offset > run[p].current_offset]_vars

\* A Knowlarity run has returned after two records, one of which failed at
\* a store call and the other of which was applied and flushed.
C28_Witness ==
    \E p \in Procs :
        /\ Returned(p) /\ run[p].kind = "Knowlarity"
        /\ run[p].summary.processedRecords = 2
        /\ ErrorsOfKind(run[p], "record") = 1
        /\ run[p].written_total = 1
        /\ run[p].current_offset = 2

\* C29: leads_master and lead_sources_history only grow: whatever step is
\* taken, by either pipeline and with the other running, every row of the
\* two tables is still there afterwards, at its place and with every
\* attribute as it was (owning source and identity key included).
C29_AppendOnly ==
    [][/\ Len(leads') >= Len(leads)
       /\ \A i \in DOMAIN leads : leads'[i] = leads[i]
       /\ Len(history') >= Len(history)
       /\ \A h \in DOMAIN history : history'[h] = history[h]]_vars

\* Two runs have each inserted a lead of one key: the second insert found
\* the row of the first in the table and left it as it was.
C29_Witness ==
    /\ Len(leads) = 2
    /\ leads[1].phone_number_normalized = leads[2].phone_number_normalized
    /\ leads[1].source_id # leads[2].source_id
    /\ leads[1].created_at = 1 /\ leads[2].created_at = 2

\* C30: a record causes at most one row insert: a step adds at most one row
\* to the two tables together, the step that adds it ends the work on the
\* record's identity (no further lookup or insert for it), and, failed
\* inserts writing nothing, the rows a run adds to leads_master are as many
\* as its insertedNew tally grows and the rows it adds to
\* lead_sources_history as many as its crossSourceHistory tally grows.
C30_OneInsertPerRecord ==
    [][/\ (Len(leads') - Len(leads)) + (Len(history') - Len(history)) \in {0, 1}
       /\ (\A p \in Procs : run'[p] = run[p]) => UNCHANGED <<leads, history>>
       /\ \A p \in Procs :
            run'[p] # run[p] =>
               /\ run[p].pc \notin {"insert_lead", "insert_history"} =>
                     UNCHANGED <<leads, history>>
               /\ run[p].pc = "insert_lead" => UNCHANGED history
               /\ run[p].pc = "insert_history" => UNCHANGED leads
               /\ <<leads', history'>> # <<leads, history>> =>
                     run'[p].pc \notin {"lookup", "insert_lead", "insert_history"}
               /\ run'[p].pc \notin {"idle", "raised"} =>
                     /\ Len(leads') - Len(leads) =
                           run'[p].summary.insertedNew - run[p].summary.insertedNew
                     /\ Len(history') - Len(history) =
                           run'[p].summary.crossSourceHistory
                              - run[p].summary.crossSourceHistory]_vars

\* A run of two records on a store that was empty when the runs began has
\* returned: one record became a lead, the other a sighting, and the tables
\* hold what this run and the one before it tallied.
C30_Witness ==
    \E p \in Procs :
        /\ Returned(p)
        /\ run[p].summary.processedRecords = 2
        /\ run[p].summary.insertedNew = 1
        /\ run[p].summary.crossSourceHistory = 1
        /\ Len(history) = 1
        /\ Len(leads) = 2

\* C31: the today counter never exceeds the total counter: the today delta
\* a run has accumulated is at most its total delta, the pair of counters a
\* run has read for its update is such a pair, and every row of sources has
\* todays_leads_count <= total_leads_count, also when the updates of two
\* overlapping runs of one source interleave.
C31_TodayWithinTotal ==
    /\ \A p \in Procs :
          /\ run[p].inc_today <= run[p].inc_total
          /\ run[p].written_today <= run[p].written_total
          /\ run[p].row.todays_leads_count <= run[p].row.total_leads_count
    /\ \A i \in DOMAIN sources :
          sources[i].todays_leads_count <= sources[i].total_leads_count

\* Two runs of one source have each written a total delta of one after
\* reading the row before the other's write; one of the records was of
\* today, and the row holds one and one.
C31_Witness ==
    /\ \A p \in Procs :
          /\ Returned(p)
          /\ run[p].source_row.id = 1
          /\ run[p].written_total = 1
    /\ \E p \in Procs : run[p].written_today = 1
    /\ \E p \in Procs : run[p].written_today = 0
    /\ sources[1].total_leads_count = 1
    /\ sources[1].todays_leads_count = 1

\* What C32 says of the run r at a record and of the lead rec it takes next;
\* a min_accepted_date without offset is read as UTC, as the help of --since
\* has it.
DateFilter(r, rec) ==
    LET t == Taken(r, rec)
        created_dt == created_date(rec.created)
    IN  /\ (created_dt # 0 /\ created_dt < r.min_accepted_date) =>
              /\ t.pc \in {"record", "fetch"}
              /\ t.summary.skippedNoPhone = r.summary.skippedNoPhone + 1
              /\ t.summary.processedRecords = r.summary.processedRecords + 1
              /\ t.summary.errors = r.summary.errors
              /\ t.summary.insertedNew = r.summary.insertedNew
              /\ t.summary.crossSourceHistory = r.summary.crossSourceHistory
              /\ t.summary.duplicateSameSource = r.summary.duplicateSameSource
              /\ t.inc_total = r.inc_total /\ t.inc_today = r.inc_today
              /\ t.normalized_phone = <<>>
        /\ created_dt = 0 =>
              IF meta_normalize_phone_keep_10_digits(rec.phone) = <<>>
              THEN t.pc \in {"record", "fetch"}
              ELSE t.pc = "lookup"

\* C32: in a Meta run, a lead whose created_time parses and is earlier than
\* min_accepted_date is skipped before its phone is normalized and before
\* any store call: it adds one to the skipped tally and nothing to the
\* errors list, to another tally or to a delta, and the run goes on with
\* the next lead; a lead whose created_time is missing or does not parse
\* is not skipped by the filter.
C32_Original ==
    \A p \in Procs :
        (run[p].kind = "Meta" /\ run[p].pc = "record") =>
            \A rec \in Records : DateFilter(run[p], rec)

\* What the code keeps of C32: the same, for the runs whose min_accepted_date
\* carries an offset.
DateFilterAware ==
    \A p \in Procs :
        (run[p].kind = "Meta" /\ run[p].pc = "record" /\ run[p].min_aware) =>
            \A rec \in Records : DateFilter(run[p], rec)

====
